---- MODULE Spec2Model ----
(***************************************************************************)
(* Hubzip.py: download, decompress and remove the master zip of a list of  *)
(* Github username/repository pairs.                                       *)
(*                                                                         *)
(* Strings the program takes apart (command line tokens, header values,    *)
(* filenames) are sequences of one-character strings, so that split,       *)
(* strip, int and the filename pattern are computed as the code computes   *)
(* them.  Two longer literals are carried as one unit each: the pattern    *)
(* prefix "attachment; filename=" and the suffix "-master.zip".            *)
(***************************************************************************)
EXTENDS Integers, Sequences, FiniteSets, TLC

\* ------------------------------------------------------------------ bounds

MaxTokens == 3
MaxTokenLen == 4
MaxHeaderLen == 2
MaxChunks == 2

\* ----------------------------------------------------------- program data

\* main calls download_github_zip(username, repository, 1024, options.quiet)
CHUNK_SIZE == 1024

\* sys.exit(0) and sys.exit(1); an uncaught exception also ends Python with 1
EXIT_OK == 0
EXIT_ERROR == 1
ZIP_TYPE == "application/zip"
DISPOSITION_PREFIX == "attachment; filename="
MASTER_SUFFIX == "-master.zip"

ERR_PREFIX == "Hubzip.py: error:"

\* Optional values: Python's None and a present value
None == <<>>
Some(v) == <<v>>
IsNone(o) == o = <<>>
Get(o) == o[1]

SeqsUpTo(S, n) == UNION {[1..k -> S] : k \in 0..n}

\* ------------------------------------------------------- string functions

Contains(s, c) == \E i \in 1..Len(s) : s[i] = c

\* str.split(sep) for a one-character separator: the list of the parts
RECURSIVE Split(_, _)
Split(s, sep) ==
    IF ~Contains(s, sep)
    THEN <<s>>
    ELSE LET i == CHOOSE k \in 1..Len(s) :
                      s[k] = sep /\ \A j \in 1..(k - 1) : s[j] # sep
         IN  <<SubSeq(s, 1, i - 1)>> \o Split(SubSeq(s, i + 1, Len(s)), sep)

Whitespace == {" "}

\* str.strip(): without the leading and the trailing whitespace
Strip(s) ==
    IF \A i \in 1..Len(s) : s[i] \in Whitespace
    THEN <<>>
    ELSE LET first == CHOOSE k \in 1..Len(s) :
                          s[k] \notin Whitespace
                          /\ \A j \in 1..(k - 1) : s[j] \in Whitespace
             last  == CHOOSE k \in 1..Len(s) :
                          s[k] \notin Whitespace
                          /\ \A j \in (k + 1)..Len(s) : s[j] \in Whitespace
         IN  SubSeq(s, first, last)

Digits == <<"0", "1", "2", "3", "4", "5", "6", "7", "8", "9">>
IsDigit(c) == \E d \in 1..10 : Digits[d] = c
DigitValue(c) == (CHOOSE d \in 1..10 : Digits[d] = c) - 1

\* '{}'.format(n) for n >= 0: the decimal digits of n
RECURSIVE Decimal(_)
Decimal(n) ==
    IF n < 10 THEN <<Digits[n + 1]>>
    ELSE Append(Decimal(n \div 10), Digits[(n % 10) + 1])

RECURSIVE DigitsValue(_)
DigitsValue(s) ==
    IF s = <<>> THEN 0
    ELSE IF s[Len(s)] = "_" THEN DigitsValue(SubSeq(s, 1, Len(s) - 1))
    ELSE 10 * DigitsValue(SubSeq(s, 1, Len(s) - 1)) + DigitValue(s[Len(s)])

\* the digit part int() accepts: digits, single underscores between them
IsDigitPart(s) ==
    /\ s # <<>>
    /\ \A i \in 1..Len(s) : IsDigit(s[i]) \/ s[i] = "_"
    /\ IsDigit(s[1]) /\ IsDigit(s[Len(s)])
    /\ \A i \in 1..(Len(s) - 1) : ~(s[i] = "_" /\ s[i + 1] = "_")

\* int(s) of a str: Some(value), or None where int raises ValueError
IntOfStr(s) ==
    LET t    == Strip(s)
        sign == IF t # <<>> /\ t[1] \in {"-", "+"} THEN Some(t[1]) ELSE None
        body == IF IsNone(sign) THEN t ELSE Tail(t)
    IN  IF ~IsDigitPart(body) THEN None
        ELSE IF sign = Some("-") THEN Some(0 - DigitsValue(body))
        ELSE Some(DigitsValue(body))

\* ------------------------------------------------------------- the inputs

TokenAlphabet == {"a", "/", " "}
Tokens == SeqsUpTo(TokenAlphabet, MaxTokenLen)

\* a token of each shape main tells apart: "a/b", " a/b ", "b/a", "a",
\* " /a", "a/ ", "a/b/a"
SampleTokens ==
    { <<"a", "/", "b">>, <<" ", "a", "/", "b", " ">>, <<"b", "/", "a">>,
      <<"a">>, <<" ", "/", "a">>, <<"a", "/", " ">>,
      <<"a", "/", "b", "/", "a">> }

\* options.repositories: nargs = '+' gives one token or more.  The lists of
\* sample tokens, and every short string as the first token, alone or
\* followed by a pair that parses.
TokenLists ==
    UNION {[1..k -> SampleTokens] : k \in 1..MaxTokens}
        \cup {<<t>> \o rest : t \in Tokens, rest \in {<<>>, << <<"a", "/", "b">> >>}}

\* body lengths around the multiples of the chunk size
BodySizes ==
    {k * CHUNK_SIZE + d : k \in 0..(MaxChunks - 1), d \in {0, 1, CHUNK_SIZE - 1}}
        \cup {MaxChunks * CHUNK_SIZE}

ContentTypes == {None, Some(ZIP_TYPE), Some("text/html")}

ContentDispositions ==
    {None} \cup {Some(v) : v \in SeqsUpTo({DISPOSITION_PREFIX, "f"}, MaxHeaderLen)}

ContentLengths ==
    {None}
        \cup {Some(Decimal(n)) : n \in BodySizes}
        \cup {Some(<<"-">> \o Decimal(n)) : n \in BodySizes}
        \cup {Some(<<>>), Some(<<"x">>), Some(<<"1", "x">>), Some(<<"-">>)}

Headers(ct, cd, cl) ==
    [h \in {"Content-Type", "Content-Disposition", "Content-Length"} |->
        CASE h = "Content-Type" -> ct
          [] h = "Content-Disposition" -> cd
          [] OTHER -> cl]

Response(ok, ct, cd, cl, n) ==
    [status_ok |-> ok, headers |-> Headers(ct, cd, cl), body |-> n]

\* what requests.get can come back with; None: it raised (no connection)
FetchResponses ==
    {None} \cup
    {Some(Response(ok, ct, cd, cl, n)) :
        ok \in BOOLEAN, ct \in ContentTypes, cd \in ContentDispositions,
        cl \in ContentLengths, n \in BodySizes}

GoodDisposition == Some(<<DISPOSITION_PREFIX, "f">>)

\* one response of each kind the run loop tells apart
RunResponses ==
    { None,
      Some(Response(TRUE, Some(ZIP_TYPE), GoodDisposition,
                    Some(Decimal(CHUNK_SIZE + 1)), CHUNK_SIZE + 1)),
      Some(Response(TRUE, Some(ZIP_TYPE), GoodDisposition, None, 1)),
      Some(Response(FALSE, Some("text/html"), None, None, 0)),
      Some(Response(TRUE, Some("text/html"), GoodDisposition, None, 1)),
      Some(Response(TRUE, Some(ZIP_TYPE), None, None, 1)),
      Some(Response(TRUE, Some(ZIP_TYPE), GoodDisposition, Some(<<"x">>), 1)) }

\* the file system and the connection while the body is streamed:
\* open_ok: open(filename, 'wb') succeeds; fail_at = k > 0: iter_content
\* raises when asked for chunk k
IOOutcomes == [open_ok : BOOLEAN, fail_at : 0..MaxChunks]

\* ---------------------------------------------------- download_github_zip

\* only the type of an error page is refused
ContentTypeNotHtml(content_type) == content_type # Some("text/html")

\* if content_type != 'application/zip': raise
ContentTypeOk(content_type) == content_type = Some(ZIP_TYPE)

\* re.search('^(attachment; filename=)(.+)$', content_disposition), group 2
DispositionMatch(content_disposition) ==
    IF Len(content_disposition) >= 2 /\ content_disposition[1] = DISPOSITION_PREFIX
    THEN Some(Tail(content_disposition))
    ELSE None

\* FILENAME_FORMAT.format(repository = repository)
DefaultFilename(repository_) == Append(repository_, MASTER_SUFFIX)

\* the local 'filename' after the header block: None while it is unbound
GuessFilename(content_disposition, repository_) ==
    IF ~IsNone(content_disposition)
    THEN LET match == DispositionMatch(Get(content_disposition))
         IN  IF ~IsNone(match)
             THEN Some(Get(match))
             ELSE Some(DefaultFilename(repository_))
    ELSE None

\* a Content-Length that is no int counts as no Content-Length
GuessFilesizeLenient(content_length) ==
    IF ~IsNone(content_length)
    THEN [ok |-> TRUE, filesize |-> IntOfStr(Get(content_length))]
    ELSE [ok |-> TRUE, filesize |-> None]

\* filesize = int(content_length), or None without the header;
\* [ok |-> FALSE] where int raises
GuessFilesize(content_length) ==
    IF ~IsNone(content_length)
    THEN LET parsed == IntOfStr(Get(content_length))
         IN  IF IsNone(parsed)
             THEN [ok |-> FALSE, filesize |-> None]
             ELSE [ok |-> TRUE, filesize |-> parsed]
    ELSE [ok |-> TRUE, filesize |-> None]

\* iter_content(chunk_size): chunks of chunk_size bytes, the last one shorter
NumChunks(body, chunk_size) == (body + chunk_size - 1) \div chunk_size

\* the amount is not clamped to the filesize
DownloadedUnclamped(index, chunk_size, filesize) == chunk_size * index

\* the amount the progress line of chunk 'index' shows
Downloaded(index, chunk_size, filesize) ==
    IF chunk_size * index > filesize THEN filesize ELSE chunk_size * index

ProgressLine(filename_, downloaded, filesize) ==
    [kind |-> "progress", filename |-> filename_,
     downloaded |-> downloaded, filesize |-> filesize]

BlankLine == [kind |-> "blank"]

\* what the chunk loop writes to stdout for the chunks 1..n
ProgressWrites(filename_, chunk_size, quiet_, filesize, n) ==
    IF ~quiet_ /\ ~IsNone(filesize)
    THEN [index \in 1..n |->
            ProgressLine(filename_, Downloaded(index, chunk_size, Get(filesize)),
                         Get(filesize))]
    ELSE <<>>

Raised(msg, created, out, filesize) ==
    [error |-> Some(msg), filename |-> None, created |-> created,
     out |-> out, filesize |-> filesize]

Returned(filename_, out, filesize) ==
    [error |-> None, filename |-> Some(filename_), created |-> Some(filename_),
     out |-> out, filesize |-> filesize]

\* The call download_github_zip(username, repository, chunk_size, quiet) on
\* response r under io: the exception it raises or the filename it returns,
\* the file it created, what it wrote to stdout, and its local filesize.
DownloadGithubZip(username_, repository_, chunk_size, quiet_, r, io) ==
    IF IsNone(r) THEN Raised("ConnectionError", None, <<>>, None)
    ELSE
    LET response_ == Get(r)
        headers == response_.headers
        content_type == headers["Content-Type"]
        content_disposition == headers["Content-Disposition"]
        content_length == headers["Content-Length"]
        name == GuessFilename(content_disposition, repository_)
        size == GuessFilesize(content_length)
        n == NumChunks(response_.body, chunk_size)
        delivered == IF io.fail_at \in 1..n THEN io.fail_at - 1 ELSE n
    IN  IF ~response_.status_ok
        THEN Raised("HTTPError", None, <<>>, None)
        ELSE IF ~ContentTypeOk(content_type)
        THEN Raised("Invalid Content-Type: should be: application/zip.",
                    None, <<>>, None)
        ELSE IF ~size.ok
        THEN Raised("Invalid Content-Length: not an int.", None, <<>>, None)
        ELSE IF IsNone(name)
        THEN Raised("UnboundLocalError: filename", None, <<>>, size.filesize)
        ELSE IF ~io.open_ok
        THEN Raised("OSError: open", None, <<>>, size.filesize)
        ELSE LET out == ProgressWrites(Get(name), chunk_size, quiet_,
                                       size.filesize, delivered)
             IN  IF delivered < n
                 THEN Raised("ConnectionError: stream", name, out, size.filesize)
                 ELSE Returned(Get(name),
                               IF quiet_ THEN out ELSE Append(out, BlankLine),
                               size.filesize)

\* ------------------------------------------------------------------- state

VARIABLES
    repositories,   \* options.repositories
    keep,           \* options.keep
    quiet,          \* options.quiet
    idx,            \* position of the for loop of main in repositories
    pc,             \* the step main is about to take: "parse", "download",
                    \* "extract", "remove", or "done" once the process ended
    username,       \* main's locals
    repository,
    filename,       \* None while unbound
    response,       \* what the latest requests.get came back with
    filesize,       \* the local filesize of the latest download_github_zip
    files,          \* the archive files in the working directory
    ops,            \* the calls made so far: get, write, extract, remove
    stdout,
    stderr,
    exitcode,       \* None while the process runs
    failed          \* None, or the pair whose step failed and the kind

vars == <<repositories, keep, quiet, idx, pc, username, repository, filename,
          response, filesize, files, ops, stdout, stderr, exitcode, failed>>

Start ==
    /\ keep \in BOOLEAN
    /\ quiet \in BOOLEAN
    /\ idx = 1
    /\ pc = "parse"
    /\ username = None
    /\ repository = None
    /\ filename = None
    /\ response = None
    /\ filesize = None
    /\ files = {}
    /\ ops = <<>>
    /\ stdout = <<>>
    /\ stderr = <<>>
    /\ exitcode = None
    /\ failed = None

Init ==
    /\ repositories \in TokenLists
    /\ Start

\* one pair that parses, for the runs that look at the download alone
InitFetch ==
    /\ repositories = << <<"a", "/", "a">> >>
    /\ Start

\* ----------------------------------------------------------------- output

\* the line goes out without the prefix
errlnBare(fmt, args) == [prefix |-> "", fmt |-> fmt, args |-> args]

errln(fmt, args) == [prefix |-> ERR_PREFIX, fmt |-> fmt, args |-> args]

\* what Python prints for the ValueError that leaves main uncaught
Traceback ==
    << [prefix |-> "", fmt |-> "Traceback (most recent call last):", args |-> <<>>],
       [prefix |-> "", fmt |-> "  File Hubzip.py, line 202, in <module>", args |-> <<>>],
       [prefix |-> "", fmt |-> "  File Hubzip.py, line 151, in main", args |-> <<>>],
       [prefix |-> "", fmt |-> "ValueError: too many values to unpack (expected 2)",
        args |-> <<>>] >>

InfoLine(username_, repository_) ==
    [kind |-> "info", username |-> username_, repository |-> repository_]

Op(op, target) == [op |-> op, idx |-> idx, target |-> target]

\* ------------------------------------------------------------------- main

\* the error is reported and the loop goes on with the next pair
DieContinue(kind, lines) ==
    /\ stderr' = stderr \o lines
    /\ failed' = Some([at |-> idx, kind |-> kind])
    /\ idx' = idx + 1
    /\ IF idx + 1 <= Len(repositories)
       THEN pc' = "parse" /\ exitcode' = exitcode
       ELSE pc' = "done" /\ exitcode' = Some(EXIT_ERROR)

\* the lines are written to stderr and the process ends with status 1
Die(kind, lines) ==
    /\ stderr' = stderr \o lines
    /\ exitcode' = Some(EXIT_ERROR)
    /\ pc' = "done"
    /\ idx' = idx
    /\ failed' = Some([at |-> idx, kind |-> kind])

\* the loop ends one pair early
NextPairEarly ==
    /\ idx' = idx + 1
    /\ IF idx + 1 < Len(repositories)
       THEN pc' = "parse" /\ exitcode' = exitcode
       ELSE pc' = "done" /\ exitcode' = Some(EXIT_OK)
    /\ UNCHANGED <<stderr, failed>>

\* the for loop takes the next pair, or main reaches sys.exit(0)
NextPair ==
    /\ idx' = idx + 1
    /\ IF idx + 1 <= Len(repositories)
       THEN pc' = "parse" /\ exitcode' = exitcode
       ELSE pc' = "done" /\ exitcode' = Some(EXIT_OK)
    /\ UNCHANGED <<stderr, failed>>

\* split('/', 1): the first '/' splits, the others stay in the repository
ParsePairFirstSlash(pair) ==
    IF ~Contains(pair, "/")
    THEN [verdict |-> "no slash"]
    ELSE LET parts == Split(pair, "/")
             first == parts[1]
             rest == SubSeq(pair, Len(first) + 2, Len(pair))
         IN  IF Strip(first) = <<>>
             THEN [verdict |-> "username"]
             ELSE IF Strip(rest) = <<>>
             THEN [verdict |-> "repository"]
             ELSE [verdict |-> "ok", username |-> Strip(first),
                   repository |-> Strip(rest)]

\* what the checks of main make of a pair: the reason it is refused,
\* or "ok" with the stripped parts
ParsePair(pair) ==
    IF ~Contains(pair, "/")
    THEN [verdict |-> "no slash"]
    ELSE LET parts == Split(pair, "/")
         IN  IF Len(parts) # 2
             THEN [verdict |-> "unpack"]
             ELSE IF Strip(parts[1]) = <<>>
             THEN [verdict |-> "username"]
             ELSE IF Strip(parts[2]) = <<>>
             THEN [verdict |-> "repository"]
             ELSE [verdict |-> "ok", username |-> Strip(parts[1]),
                   repository |-> Strip(parts[2])]

ParseToken ==
    /\ pc = "parse"
    /\ LET parsed == ParsePair(repositories[idx])
       IN  CASE parsed.verdict = "no slash" ->
                 /\ Die("InvalidReference",
                        <<errln("Invalid username/repository combination.", <<>>)>>)
                 /\ UNCHANGED <<username, repository, stdout>>
             [] parsed.verdict = "unpack" ->
                 /\ Die("InvalidReference", Traceback)
                 /\ UNCHANGED <<username, repository, stdout>>
             [] parsed.verdict = "username" ->
                 /\ Die("InvalidReference",
                        <<errln("Invalid or empty username.", <<>>)>>)
                 /\ UNCHANGED <<username, repository, stdout>>
             [] parsed.verdict = "repository" ->
                 /\ Die("InvalidReference",
                        <<errln("Invalid or empty repository.", <<>>)>>)
                 /\ UNCHANGED <<username, repository, stdout>>
             [] OTHER ->
                 /\ username' = Some(parsed.username)
                 /\ repository' = Some(parsed.repository)
                 /\ stdout' = IF quiet THEN stdout
                              ELSE Append(stdout,
                                          InfoLine(parsed.username, parsed.repository))
                 /\ pc' = "download"
                 /\ UNCHANGED <<idx, stderr, exitcode, failed>>
    /\ UNCHANGED <<repositories, keep, quiet, filename, response, filesize, files, ops>>

\* the calls a download made: the request, and the write once the file is open
DownloadOps(res) ==
    <<Op("get", [username |-> Get(username), repository |-> Get(repository)])>>
        \o (IF IsNone(res.created) THEN <<>> ELSE <<Op("write", Get(res.created))>>)

Download(responses) ==
    /\ pc = "download"
    /\ \E r \in responses, io \in IOOutcomes :
         LET res == DownloadGithubZip(Get(username), Get(repository), CHUNK_SIZE,
                                      quiet, r, io)
         IN  /\ response' = r
             /\ filesize' = res.filesize
             /\ ops' = ops \o DownloadOps(res)
             /\ files' = IF IsNone(res.created) THEN files
                         ELSE files \cup {Get(res.created)}
             /\ stdout' = stdout \o res.out
             /\ IF IsNone(res.error)
                THEN /\ filename' = res.filename
                     /\ pc' = "extract"
                     /\ UNCHANGED <<idx, stderr, exitcode, failed>>
                ELSE /\ Die("DownloadError",
                            << errln("Unable to download: {}/{}.",
                                     <<Get(username), Get(repository)>>),
                               errln("Exception message: {}", <<Get(res.error)>>) >>)
                     /\ UNCHANGED filename
    /\ UNCHANGED <<repositories, keep, quiet, username, repository>>

\* the archive is removed whatever keep says
RemovalAlways(keep_) == TRUE

\* if not options.keep: the archive is removed after the extraction
RemovalWanted(keep_) == ~keep_

\* ZipFile(filename, 'r').extractall(): ok is whether it goes through
Extract ==
    /\ pc = "extract"
    /\ \E ok \in BOOLEAN :
         IF ok
         THEN /\ ops' = Append(ops, Op("extract", Get(filename)))
              /\ IF RemovalWanted(keep)
                 THEN /\ pc' = "remove"
                      /\ UNCHANGED <<idx, stderr, exitcode, failed>>
                 ELSE NextPair
         ELSE /\ Die("ExtractionError",
                     << errln("Unable to decompress: {}.", <<Get(filename)>>),
                        errln("Exception message: {}", <<"BadZipFile">>) >>)
              /\ UNCHANGED ops
    /\ UNCHANGED <<repositories, keep, quiet, username, repository, filename,
                   response, filesize, files, stdout>>

\* os.remove(filename): ok is whether the file system lets it
Remove ==
    /\ pc = "remove"
    /\ \E ok \in BOOLEAN :
         IF ok
         THEN /\ ops' = Append(ops, Op("remove", Get(filename)))
              /\ files' = files \ {Get(filename)}
              /\ NextPair
         ELSE /\ Die("CleanupError",
                     << errln("Unable to remove: {}", <<Get(filename)>>),
                        errln("Exception message: {}", <<"OSError: remove">>) >>)
              /\ UNCHANGED <<ops, files>>
    /\ UNCHANGED <<repositories, keep, quiet, username, repository, filename,
                   response, filesize, stdout>>

\* KeyboardInterrupt while main runs: the handler at the bottom of the file
\* passes and the process ends with status 0.  What the interrupted step
\* had done so far stays: a request made, a file opened and partly written,
\* an archive removed.
Interrupt(responses) ==
    /\ pc # "done"
    /\ pc' = "done"
    /\ exitcode' = Some(EXIT_OK)
    /\ \/ UNCHANGED <<response, filesize, files, ops, stdout>>
       \/ /\ pc = "download"
          /\ \E r \in responses, io \in IOOutcomes :
               LET res == DownloadGithubZip(Get(username), Get(repository),
                                            CHUNK_SIZE, quiet, r, io)
               IN  /\ ~IsNone(res.error)
                   /\ response' = r
                   /\ filesize' = res.filesize
                   /\ ops' = ops \o DownloadOps(res)
                   /\ files' = IF IsNone(res.created) THEN files
                               ELSE files \cup {Get(res.created)}
                   /\ stdout' = stdout \o res.out
       \/ /\ pc = "remove"
          /\ ops' = Append(ops, Op("remove", Get(filename)))
          /\ files' = files \ {Get(filename)}
          /\ UNCHANGED <<response, filesize, stdout>>
    /\ UNCHANGED <<repositories, keep, quiet, idx, username, repository, filename,
                   stderr, failed>>

\* --------------------------------------------------------- specifications

Next ==
    \/ ParseToken
    \/ Download(RunResponses)
    \/ Extract
    \/ Remove

\* the run loop, left alone
Spec == Init /\ [][Next]_vars

\* main is one thread that runs until it exits
SpecFair == Init /\ [][Next]_vars /\ WF_vars(Next)

NextInterrupt ==
    \/ ParseToken
    \/ Download(RunResponses)
    \/ Extract
    \/ Remove
    \/ Interrupt(RunResponses)

\* the run loop, with Ctrl-C possible at any step
SpecInterrupt == Init /\ [][NextInterrupt]_vars

NextFetch ==
    \/ ParseToken
    \/ Download(FetchResponses)
    \/ Extract
    \/ Remove

\* one pair, against every response of the grid
SpecFetch == InitFetch /\ [][NextFetch]_vars

\* ------------------------------------------------- vocabulary of the claims

\* the calls made for pair j, in the order they were made
OpsOf(j) ==
    LET mine == SelectSeq(ops, LAMBDA o : o.idx = j)
    IN  [i \in 1..Len(mine) |-> mine[i].op]

\* the calls of a pair that went through all its steps
FullSteps == IF keep THEN <<"get", "write", "extract">>
             ELSE <<"get", "write", "extract", "remove">>

\* the whole run as pairs <<position, call>>
OpTrace == [i \in 1..Len(ops) |-> <<ops[i].idx, ops[i].op>>]

RECURSIVE FullTrace(_)
FullTrace(n) ==
    IF n = 0 THEN <<>>
    ELSE FullTrace(n - 1) \o [i \in 1..Len(FullSteps) |-> <<n, FullSteps[i]>>]

Failed == ~IsNone(failed)
FailedAt == Get(failed).at
FailKind == Get(failed).kind
Exited == pc = "done" /\ ~IsNone(exitcode)
ExitedNonZero == Exited /\ Get(exitcode) # 0

\* a token in the words of the specification: it has exactly one '/', and
\* something other than whitespace on both sides of it
Slashes(t) == {i \in 1..Len(t) : t[i] = "/"}
WellFormed(t) ==
    /\ Cardinality(Slashes(t)) = 1
    /\ LET s == CHOOSE i \in Slashes(t) : TRUE
       IN  /\ \E i \in 1..(s - 1) : t[i] \notin Whitespace
           /\ \E i \in (s + 1)..Len(t) : t[i] \notin Whitespace

AllWellFormed == \A i \in 1..Len(repositories) : WellFormed(repositories[i])

\* ------------------------------------------------------------------ claims

\* C1: the run halts on the first failure.  Once the step sequence of pair k
\* has failed, the process has ended with a non-zero status, no call was or
\* is made for a pair after k, the calls for k stop at the failed step, and
\* every pair before k went through all its steps, with its archive still
\* there when keep is set.
C1_HaltsOnFirstFailure ==
    Failed =>
        /\ ExitedNonZero
        /\ \A i \in 1..Len(ops) : ops[i].idx <= FailedAt
        /\ \A j \in 1..(FailedAt - 1) : OpsOf(j) = FullSteps
        /\ OpsOf(FailedAt) \in
             CASE FailKind = "InvalidReference" -> {<<>>}
               [] FailKind = "DownloadError" -> {<<"get">>, <<"get", "write">>}
               [] FailKind = "ExtractionError" -> {<<"get", "write">>}
               [] OTHER -> {<<"get", "write", "extract">>}
        /\ keep => \A i \in 1..Len(ops) :
                      (ops[i].op = "write" /\ ops[i].idx < FailedAt)
                          => ops[i].target \in files

\* pair 2 of three fails at the removal, after pair 1 went through
C1_Witness ==
    /\ Failed /\ FailedAt = 2 /\ FailKind = "CleanupError"
    /\ Len(repositories) = 3
    /\ OpsOf(1) = FullSteps
    /\ ExitedNonZero

\* C2: with pairs that are all well formed and a download, extraction and
\* removal that never fail, the run ends with status 0 after making, for each
\* pair in input order and exactly once, the request, the write, the
\* extraction and (unless keep) the removal.
C2_VisitsAllAndExitsZero ==
    AllWellFormed =>
        <>( \/ Failed /\ FailKind \in {"DownloadError", "ExtractionError", "CleanupError"}
            \/ /\ Exited /\ exitcode = Some(EXIT_OK)
               /\ OpTrace = FullTrace(Len(repositories)) )

C2_Witness ==
    /\ AllWellFormed /\ Len(repositories) = 3
    /\ Exited /\ exitcode = Some(EXIT_OK)
    /\ ~Failed
    /\ OpTrace = FullTrace(3)

\* C3: a token without '/', with more than one '/', or with nothing but
\* whitespace before or after the '/' ends the run with a non-zero status,
\* and no request is made for it or for any token after it.
C3_MalformedTokenStopsRun ==
    \A k \in 1..Len(repositories) :
        ~WellFormed(repositories[k]) =>
            /\ \A i \in 1..Len(ops) : ops[i].op = "get" => ops[i].idx < k
            /\ idx <= k
            /\ (idx = k => pc \in {"parse", "done"})
            /\ Exited => Get(exitcode) # 0

\* the second token has two slashes: one request was made, for the first
C3_Witness ==
    /\ Len(repositories) >= 2
    /\ Cardinality(Slashes(repositories[2])) > 1
    /\ Failed /\ FailedAt = 2 /\ FailKind = "InvalidReference"
    /\ ExitedNonZero
    /\ OpsOf(1) = FullSteps

\* the latest response and its headers
Hdr(h) == Get(response).headers[h]
Answered == ~IsNone(response)
\* the response passed raise_for_status and the Content-Type check
TypeAccepted ==
    Answered /\ Get(response).status_ok /\ Hdr("Content-Type") = Some(ZIP_TYPE)

DownloadFailed == Failed /\ FailKind = "DownloadError"
\* the exception message of the second error line
Cause == stderr[Len(stderr)].args[1]
NoFileWritten ==
    \A i \in 1..Len(ops) : ops[i].idx = FailedAt => ops[i].op = "get"

Progress == SelectSeq(stdout, LAMBDA l : l.kind = "progress")

IsDigitsText(s) == s # <<>> /\ \A i \in 1..Len(s) : IsDigit(s[i])
IsIntegerText(s) ==
    \/ IsDigitsText(s)
    \/ s # <<>> /\ s[1] \in {"-", "+"} /\ IsDigitsText(Tail(s))

\* the text reads as an integer that is not negative: '-0' is one
IsNonNegativeText(s) ==
    \/ IsDigitsText(s)
    \/ s # <<>> /\ s[1] = "+" /\ IsDigitsText(Tail(s))
    \/ /\ s # <<>> /\ s[1] = "-" /\ Tail(s) # <<>>
       /\ \A i \in 2..Len(s) : s[i] = "0"

\* the archive of the pair is saved under name: the download fails for no
\* reason but the file system or the connection, and what is written is name
SavedUnder(name) ==
    /\ DownloadFailed => Cause \in {"OSError: open", "ConnectionError: stream"}
    /\ \A i \in 1..Len(ops) : ops[i].op = "write" => ops[i].target = name
    /\ ~DownloadFailed => filename = Some(name)

\* C4: the name the archive is saved under.  With a Content-Disposition of
\* 'attachment; filename=<value>' it is <value>; without the header it is
\* '{repository}-master.zip', and the download succeeds.
C4_FilenameResolution ==
    (TypeAccepted /\ (IsNone(Hdr("Content-Length"))
                        \/ IsDigitsText(Get(Hdr("Content-Length"))))) =>
        /\ \A v \in SeqsUpTo({DISPOSITION_PREFIX, "f"}, MaxHeaderLen) \ {<<>>} :
              Hdr("Content-Disposition") = Some(<<DISPOSITION_PREFIX>> \o v)
                  => SavedUnder(v)
        /\ IsNone(Hdr("Content-Disposition"))
              => SavedUnder(Get(repository) \o <<MASTER_SUFFIX>>)

\* the half of C4 about a header that is there
C4_HeaderGivesName ==
    (TypeAccepted /\ (IsNone(Hdr("Content-Length"))
                        \/ IsDigitsText(Get(Hdr("Content-Length"))))) =>
        \A v \in SeqsUpTo({DISPOSITION_PREFIX, "f"}, MaxHeaderLen) \ {<<>>} :
            Hdr("Content-Disposition") = Some(<<DISPOSITION_PREFIX>> \o v)
                => SavedUnder(v)

\* C5: a response whose Content-Type is not exactly 'application/zip', the
\* missing header included, makes the download fail with no file created or
\* written and nothing extracted, and the run ends with a non-zero status.
C5_WrongContentTypeFails ==
    (Answered /\ Hdr("Content-Type") # Some(ZIP_TYPE)) =>
        /\ DownloadFailed
        /\ ExitedNonZero
        /\ NoFileWritten
        /\ files = {}

C5_Witness ==
    /\ Answered /\ Get(response).status_ok
    /\ IsNone(Hdr("Content-Type"))
    /\ Hdr("Content-Disposition") = GoodDisposition
    /\ DownloadFailed /\ ExitedNonZero /\ files = {}

\* C6: with a Content-Length of N and a body of N bytes in chunks of 1024,
\* no progress update shows more than N, and when the download goes through
\* there is one update per chunk and the last one shows exactly N.
C6_ProgressClamped ==
    \A n \in BodySizes :
        (TypeAccepted /\ Hdr("Content-Length") = Some(Decimal(n))
                      /\ Get(response).body = n) =>
            /\ \A i \in 1..Len(Progress) : Progress[i].downloaded <= n
            /\ (~quiet /\ ~DownloadFailed) =>
                  /\ Len(Progress) * CHUNK_SIZE >= n
                  /\ n > 0 => /\ (Len(Progress) - 1) * CHUNK_SIZE < n
                              /\ Progress[Len(Progress)].downloaded = n

\* 1025 bytes: two chunks, the second update clamped from 2048 to 1025
C6_Witness ==
    /\ TypeAccepted /\ Hdr("Content-Length") = Some(<<"1", "0", "2", "5">>)
    /\ Get(response).body = CHUNK_SIZE + 1
    /\ ~DownloadFailed
    /\ Len(Progress) = 2
    /\ Progress[1].downloaded = CHUNK_SIZE
    /\ Progress[2].downloaded = CHUNK_SIZE + 1

\* the download of pair j returned a filename
DownloadOk(j) ==
    \/ idx > j
    \/ idx = j /\ pc \in {"extract", "remove"}
    \/ Failed /\ FailedAt = j /\ FailKind \in {"ExtractionError", "CleanupError"}
ExtractOk(j) == \E i \in 1..Len(ops) : ops[i].idx = j /\ ops[i].op = "extract"
Deleted(j) == \E i \in 1..Len(ops) : ops[i].idx = j /\ ops[i].op = "remove"
RemovalFailed(j) == Failed /\ FailedAt = j /\ FailKind = "CleanupError"

\* C7 as stated: at the end of the run the archive of a pair has been deleted
\* exactly when its download and its extraction succeeded and keep is false.
C7_DeletedExactlyWhen ==
    Exited =>
        \A j \in 1..Len(repositories) :
            Deleted(j) <=> (DownloadOk(j) /\ ExtractOk(j) /\ ~keep)

\* C7, amended: at the end of the run the archive of a pair has been deleted
\* exactly when its download and its extraction succeeded, keep is false and
\* os.remove did not fail.  After a run that ends with status 0 without
\* keep no archive is left; with keep every archive written is still there;
\* after a failed extraction or a failed removal the archive is still there.
C7_DeletedUnlessRemovalFails ==
    Exited =>
        /\ \A j \in 1..Len(repositories) :
              Deleted(j) <=>
                  (DownloadOk(j) /\ ExtractOk(j) /\ ~keep /\ ~RemovalFailed(j))
        /\ (exitcode = Some(EXIT_OK) /\ ~keep) => files = {}
        /\ keep => \A i \in 1..Len(ops) :
                      ops[i].op = "write" => ops[i].target \in files
        /\ (Failed /\ FailKind \in {"ExtractionError", "CleanupError"})
              => Get(filename) \in files

\* the removal of the second archive fails, after the first was deleted
C7_Witness ==
    /\ Exited /\ ~keep
    /\ RemovalFailed(2)
    /\ Deleted(1) /\ ~Deleted(2)
    /\ Get(filename) \in files

Prefixed(l) == l.prefix = ERR_PREFIX

\* C8 as stated: every fatal error is reported as two lines on stderr, each
\* with the prefix 'Hubzip.py: error:', and the process ends non-zero.
C8_TwoPrefixedLines ==
    Failed =>
        /\ Len(stderr) = 2
        /\ \A i \in 1..Len(stderr) : Prefixed(stderr[i])
        /\ ExitedNonZero

\* C8, amended: a failed download, extraction or removal is reported as two
\* prefixed lines, what failed and then 'Exception message: <cause>', with
\* or without quiet.  A token without '/' or with an empty username or
\* repository is reported as one prefixed line.  A token with more than one
\* '/' leaves an uncaught ValueError: a traceback, no prefixed line.  The
\* process ends with a non-zero status in every case.
C8_ErrorReport ==
    Failed =>
        /\ ExitedNonZero
        /\ FailKind \in {"DownloadError", "ExtractionError", "CleanupError"} =>
              /\ Len(stderr) = 2
              /\ Prefixed(stderr[1]) /\ Prefixed(stderr[2])
              /\ stderr[1].fmt =
                    CASE FailKind = "DownloadError" -> "Unable to download: {}/{}."
                      [] FailKind = "ExtractionError" -> "Unable to decompress: {}."
                      [] OTHER -> "Unable to remove: {}"
              /\ stderr[2].fmt = "Exception message: {}"
        /\ FailKind = "InvalidReference" =>
              IF Cardinality(Slashes(repositories[FailedAt])) > 1
              THEN /\ stderr # <<>>
                   /\ \A i \in 1..Len(stderr) : ~Prefixed(stderr[i])
              ELSE Len(stderr) = 1 /\ Prefixed(stderr[1])

\* quiet is set, the extraction fails, and both lines are there
C8_Witness ==
    /\ quiet
    /\ Failed /\ FailKind = "ExtractionError"
    /\ Len(stderr) = 2 /\ Prefixed(stderr[1]) /\ Prefixed(stderr[2])
    /\ stdout = <<>>
    /\ ExitedNonZero

\* C9 as stated: a Content-Length that is not a non-negative integer makes
\* the download fail before a file is written, so the expected size is never
\* negative and no progress update shows a negative amount.
C9_NonNegativeLength ==
    /\ (TypeAccepted /\ ~IsNone(Hdr("Content-Length"))
            /\ ~IsNonNegativeText(Get(Hdr("Content-Length"))))
          => DownloadFailed /\ NoFileWritten
    /\ \A i \in 1..Len(Progress) :
          Progress[i].filesize >= 0 /\ Progress[i].downloaded >= 0

\* C9, amended: a Content-Length is accepted exactly when it reads as an
\* integer, a negative one included.  Any other value makes the download fail
\* before a file is written.  The expected size is the integer read: for a
\* non-negative one no progress update is negative and none exceeds it; for
\* a negative one every progress update shows that negative size.
C9_IntegerLength ==
    (TypeAccepted /\ ~IsNone(Hdr("Content-Length"))) =>
        LET s == Get(Hdr("Content-Length"))
        IN  /\ ~IsIntegerText(s) =>
                  /\ DownloadFailed
                  /\ Cause = "Invalid Content-Length: not an int."
                  /\ NoFileWritten
                  /\ files = {}
            /\ IsIntegerText(s) =>
                  /\ DownloadFailed => Cause # "Invalid Content-Length: not an int."
                  /\ \A n \in BodySizes :
                        /\ s = Decimal(n) => filesize = Some(n)
                        /\ s = <<"-">> \o Decimal(n) => filesize = Some(0 - n)
                  /\ \A i \in 1..Len(Progress) :
                        /\ Progress[i].filesize = Get(filesize)
                        /\ Progress[i].downloaded <= Get(filesize)
                        /\ Get(filesize) >= 0 => Progress[i].downloaded >= 0
                        /\ Get(filesize) < 0 => Progress[i].downloaded = Get(filesize)

\* Content-Length: -1025 is accepted, and the progress line shows -1025
C9_Witness ==
    /\ TypeAccepted /\ Hdr("Content-Length") = Some(<<"-", "1", "0", "2", "5">>)
    /\ filesize = Some(0 - (CHUNK_SIZE + 1))
    /\ ~DownloadFailed
    /\ Progress # <<>>
    /\ Progress[1].downloaded = 0 - (CHUNK_SIZE + 1)

\* C10: a process that ended with status 0 has made, for every pair of the
\* input, the request, the write, the extraction and (unless keep) the
\* removal, also when Ctrl-C arrives during a step.
C10_ExitZeroMeansAllProcessed ==
    (Exited /\ exitcode = Some(EXIT_OK)) => OpTrace = FullTrace(Len(repositories))

====
